---- MODULE Spec2Model ----
(***************************************************************************)
(* Line components of the 4C input reader                                  *)
(* (src/src/core/io/src/4C_io_linecomponent.cpp).                          *)
(*                                                                         *)
(* One record is read by an ordered list of components; every component's  *)
(* read works on the same std::stringstream "condline" and on the same     *)
(* InputParameterContainer.  The stream is modelled with its character     *)
(* buffer, its get position and its eofbit/failbit, because the reads      *)
(* compute erase positions from tellg(), which answers -1 once one of the  *)
(* bits is set.                                                            *)
(*                                                                         *)
(* A text is a sequence of one-character strings.  Names of components     *)
(* (the container keys) are TLA+ strings.                                  *)
(*                                                                         *)
(* A value the code keeps in a local variable and uses more than once is   *)
(* handed on as a parameter of the operator that models the code after the *)
(* assignment (IntComponent_read, IntComponent_read_at, ...).              *)
(***************************************************************************)
EXTENDS Integers, Sequences, FiniteSets, TLC

VARIABLES
  condline,   \* the stream of the record: [str, g, eof, fail]
  container,  \* the InputParameterContainer of the record
  comps,      \* the components of the record, in the order they are read
  line,       \* the text the stream was made of
  idx,        \* how many components' read has been invoked
  err,        \* "none", or what the last read threw
  errat,      \* where it was thrown: <<idx>>, and the sub-component within a Switch
  errleft,    \* the leftover characters a TrailingGarbage error reports
  errwhat,    \* what a TrailingGarbage error says the variable has to be
  log,        \* the names of the components read, sub-components included
  pre,        \* stream and container before the last read
  skipped     \* an optional Separator moved to the end and no label was found since

vars ==
  <<condline, container, comps, line, idx, err, errat, errleft, errwhat, log, pre,
    skipped>>

-----------------------------------------------------------------------------
(* Bounds of the model                                                     *)

\* longest text of the generic family (characters)
MaxTextLen == 5
\* largest NUMSCAL / number of STOICHIOMETRIES tokens of the Butler-Volmer lines
MaxN == 3
\* largest fixed length of a vector of the generic family
MaxVecLen == 2
\* largest number of STOICHIOMETRIES of the kinetics lines
MaxStoich == 2
\* largest number of words of the lines of the label family
MaxWords == 3
\* largest number of tokens of the lines of the value family
MaxTokens == 2

-----------------------------------------------------------------------------
(* Characters and strings                                                  *)

SP == " "

\* std::isspace for the characters of the model: the blank is the only one
isspace(ch) == ch = SP

DigitChars == <<"0", "1", "2", "3", "4", "5", "6", "7", "8", "9">>

isdigit(ch) == \E i \in 1..10 : DigitChars[i] = ch

DigitVal(ch) == (CHOOSE i \in 1..10 : DigitChars[i] = ch) - 1

\* size_t: the modulus stands for 2^64 (TLC's integers end at 2^31-1); what the
\* code uses of it is kept: npos + 1 wraps to 0, and npos - n exceeds every size()
SizeMod == 1073741824

npos == SizeMod - 1

\* (size_t) of a stream position: -1 becomes the largest size_t
ToSizeT(p) == p % SizeMod

\* the least element of a non-empty set of numbers
MinOf(S) == CHOOSE i \in S : \A j \in S : i <= j

FirstOrNpos(hits) == IF hits = {} THEN npos ELSE MinOf(hits)

\* std::string::find(needle) from index 0: first index of an occurrence, or npos
Find(hay, needle) ==
  FirstOrNpos({i \in 0..(Len(hay) - Len(needle)) :
                 SubSeq(hay, i + 1, i + Len(needle)) = needle})

\* std::string::erase(pos, n) throws std::out_of_range iff pos > size()
EraseThrows(str, pos) == pos > Len(str)

\* std::string::erase(pos, n) for pos <= size(): removes the characters from pos
\* on, n of them or all that are left
Erase(str, pos, n) == SubSeq(str, 1, pos) \o SubSeq(str, pos + n + 1, Len(str))

\* " " + label + " "
Padded(label) == <<SP>> \o label \o <<SP>>

-----------------------------------------------------------------------------
(* std::stringstream: [str, g, eof, fail]                                  *)
(* g is the get position of the buffer, eof/fail the state bits            *)

Stream(text) == [str |-> text, g |-> 0, eof |-> FALSE, fail |-> FALSE]

good(s) == ~s.eof /\ ~s.fail

\* tellg(): the sentry sets failbit when the stream is not good; -1 when fail()
tellg(s) ==
  IF good(s) THEN [pos |-> s.g, s |-> s]
  ELSE [pos |-> -1, s |-> [s EXCEPT !.fail = TRUE]]

\* str(text): replaces the buffer, get position back to 0, state bits kept
setstr(s, text) == [s EXCEPT !.str = text, !.g = 0]

\* seekg(pos): clears eofbit first; nothing more when fail(); failbit when pos is
\* outside the buffer
seekg(s, p) ==
  IF s.fail THEN [s EXCEPT !.eof = FALSE]
  ELSE IF p >= 0 /\ p <= Len(s.str) THEN [s EXCEPT !.eof = FALSE, !.g = p]
  ELSE [s EXCEPT !.eof = FALSE, !.fail = TRUE]

\* seekg(0, end)
seekg_end(s) ==
  IF s.fail THEN [s EXCEPT !.eof = FALSE]
  ELSE [s EXCEPT !.eof = FALSE, !.g = Len(s.str)]

\* the token from index b (1-based) up to the blank before stops, or to the end;
\* eofbit when the end of the buffer ended it
extract_token(s, b, e, ateof) ==
  [tok |-> SubSeq(s.str, b, e), s |-> [s EXCEPT !.g = e, !.eof = ateof]]

extract_from(s, b, stops) ==
  extract_token(s, b, IF stops = {} THEN Len(s.str) ELSE MinOf(stops) - 1, stops = {})

\* the sentry has skipped white space: starts are the indices of the characters
\* after the get position that are no white space
extract_skipws(s, tok0, starts) ==
  IF starts = {}
  THEN [tok |-> tok0, s |-> [s EXCEPT !.g = Len(s.str), !.eof = TRUE, !.fail = TRUE]]
  ELSE extract_from(s, MinOf(starts),
                    {i \in MinOf(starts)..Len(s.str) : isspace(s.str[i])})

\* operator>>(std::string&): tok0 is the string's value before the call, kept when
\* the sentry fails (stream not good, or only white space up to the end)
extract(s, tok0) ==
  IF ~good(s) THEN [tok |-> tok0, s |-> [s EXCEPT !.fail = TRUE]]
  ELSE extract_skipws(s, tok0, {i \in (s.g + 1)..Len(s.str) : ~isspace(s.str[i])})

-----------------------------------------------------------------------------
(* Numeric conversion                                                      *)

\* largest int
IntMax == 2147483647

\* number of leading digits of tok from 1-based index i on
RECURSIVE DigitRun(_, _)
DigitRun(tok, i) ==
  IF i <= Len(tok) /\ isdigit(tok[i]) THEN 1 + DigitRun(tok, i + 1) ELSE 0

\* value of acc followed by the digits tok[i..j], or -1 when it exceeds IntMax
RECURSIVE DigitsValue(_, _, _, _)
DigitsValue(tok, i, j, acc) ==
  IF i > j \/ acc < 0 THEN acc
  ELSE IF acc > (IntMax - DigitVal(tok[i])) \div 10 THEN -1
  ELSE DigitsValue(tok, i + 1, j, acc * 10 + DigitVal(tok[i]))

SignLen(tok) == IF Len(tok) >= 1 /\ tok[1] \in {"+", "-"} THEN 1 ELSE 0

Signed(tok, mag) == IF tok[1] = "-" THEN 0 - mag ELSE mag

stoi_value(tok, sg, nd, mag) ==
  IF nd = 0 THEN [status |-> "invalid_argument", value |-> 0, pos |-> 0]
  ELSE IF mag = -1 THEN [status |-> "out_of_range", value |-> 0, pos |-> 0]
  ELSE [status |-> "ok", value |-> Signed(tok, mag), pos |-> sg + nd]

stoi_digits(tok, sg, nd) ==
  stoi_value(tok, sg, nd, DigitsValue(tok, sg + 1, sg + nd, 0))

\* std::stoi(snumber, &pos): optional sign, then digits
stoi(tok) == stoi_digits(tok, SignLen(tok), DigitRun(tok, SignLen(tok) + 1))

\* a double as mant / 10^scale, without trailing zeros in the fraction
RECURSIVE NormReal(_, _)
NormReal(mant, scale) ==
  IF mant = 0 THEN [mant |-> 0, scale |-> 0]
  ELSE IF scale > 0 /\ mant % 10 = 0 THEN NormReal(mant \div 10, scale - 1)
  ELSE [mant |-> mant, scale |-> scale]

\* a double with the value of the integer n
RealOfInt(n) == NormReal(n, 0)

\* mag is the value of all digits, -1 when it exceeds IntMax: the double is then
\* kept as the literal it was converted from (a double holds every literal of the
\* lines read here; std::stod throws std::out_of_range beyond 1.8e308 only)
stod_value(tok, n, nf, len, mag) ==
  IF n = 0 THEN [status |-> "invalid_argument", value |-> RealOfInt(0), pos |-> 0]
  ELSE IF mag = -1 THEN [status |-> "ok", value |-> [literal |-> SubSeq(tok, 1, len)],
                         pos |-> len]
  ELSE [status |-> "ok", value |-> NormReal(Signed(tok, mag), nf), pos |-> len]

\* ni digits before the point, nf behind it
stod_fraction(tok, sg, ni, dot, nf) ==
  stod_value(tok, ni + nf, nf, sg + ni + (IF dot THEN 1 + nf ELSE 0),
             DigitsValue(tok, sg + ni + 2, sg + ni + 1 + nf,
                         DigitsValue(tok, sg + 1, sg + ni, 0)))

stod_point(tok, sg, ni, dot) ==
  stod_fraction(tok, sg, ni, dot, IF dot THEN DigitRun(tok, sg + ni + 2) ELSE 0)

stod_digits(tok, sg, ni) ==
  stod_point(tok, sg, ni, sg + ni + 1 <= Len(tok) /\ tok[sg + ni + 1] = ".")

\* std::stod(snumber, &pos) for decimal literals: optional sign, digits, optional
\* point and digits, at least one digit in all
stod(tok) == stod_digits(tok, SignLen(tok), DigitRun(tok, SignLen(tok) + 1))

-----------------------------------------------------------------------------
(* Values, the container, results of a read                                *)

IntV(n) == [t |-> "int", v |-> n]
RealV(x) == [t |-> "double", v |-> x]
StrV(str) == [t |-> "string", v |-> str]
BoolV(b) == [t |-> "bool", v |-> b]
IntVecV(ns) == [t |-> "vector<int>", v |-> ns]
RealVecV(xs) == [t |-> "vector<double>", v |-> xs]

\* InputParameterContainer: a function from names to values
EmptyContainer == <<>>

\* container.add(name, value): the entry of the name is set
add(c, name, value) ==
  [k \in DOMAIN c \cup {name} |-> IF k = name THEN value ELSE c[k]]

\* a read that returned: the stream and the container it leaves
Ok(s, c) ==
  [s |-> s, c |-> c, err |-> "none", left |-> <<>>, what |-> "", at |-> <<>>,
   log |-> <<>>]

\* a read that threw e: the stream and the container at the throw
Fail(s, c, e) ==
  [s |-> s, c |-> c, err |-> e, left |-> <<>>, what |-> "", at |-> <<>>, log |-> <<>>]

\* the wording of throw_error_wrong_data_type for T
throw_error_wrong_data_type(T) ==
  IF T = "int" THEN "has to be an integer" ELSE "has to be a floating point"

\* convert_checked without the case of the empty token of a mandatory field
convert_checked_no_missing(T, snumber, optional, r) ==
  IF r.status = "invalid_argument"
  THEN [err |-> "InvalidNumericLiteral", value |-> r.value, left |-> <<>>, what |-> ""]
  ELSE IF r.status = "out_of_range"
  THEN [err |-> "std::out_of_range", value |-> r.value, left |-> <<>>, what |-> ""]
  ELSE IF r.pos # Len(snumber)
  THEN [err |-> "TrailingGarbage", value |-> r.value,
        left |-> SubSeq(snumber, r.pos + 1, Len(snumber)),
        what |-> throw_error_wrong_data_type(T)]
  ELSE [err |-> "none", value |-> r.value, left |-> <<>>, what |-> ""]

\* convert_checked with the whole token reported as what was left over
convert_checked_whole_token(T, snumber, optional, r) ==
  IF r.status = "invalid_argument"
  THEN [err |-> IF ~optional /\ snumber = <<>> THEN "MissingValue"
                ELSE "InvalidNumericLiteral",
        value |-> r.value, left |-> <<>>, what |-> ""]
  ELSE IF r.status = "out_of_range"
  THEN [err |-> "std::out_of_range", value |-> r.value, left |-> <<>>, what |-> ""]
  ELSE IF r.pos # Len(snumber)
  THEN [err |-> "TrailingGarbage", value |-> r.value, left |-> snumber,
        what |-> throw_error_wrong_data_type(T)]
  ELSE [err |-> "none", value |-> r.value, left |-> <<>>, what |-> ""]

\* r is what stoi/stod answered for snumber
convert_checked(T, snumber, optional, r) ==
  IF r.status = "invalid_argument"
  THEN [err |-> IF ~optional /\ snumber = <<>> THEN "MissingValue"
                ELSE "InvalidNumericLiteral",
        value |-> r.value, left |-> <<>>, what |-> ""]
  ELSE IF r.status = "out_of_range"
  THEN [err |-> "std::out_of_range", value |-> r.value, left |-> <<>>, what |-> ""]
  ELSE IF r.pos # Len(snumber)
  THEN [err |-> "TrailingGarbage", value |-> r.value,
        left |-> SubSeq(snumber, r.pos + 1, Len(snumber)),
        what |-> throw_error_wrong_data_type(T)]
  ELSE [err |-> "none", value |-> r.value, left |-> <<>>, what |-> ""]

\* only std::invalid_argument is caught; std::out_of_range of stoi/stod passes
convert_and_validate_string_to_number(T, snumber, optional) ==
  convert_checked(T, snumber, optional, IF T = "int" THEN stoi(snumber) ELSE stod(snumber))

\* the read threw what the conversion v threw
FailConvert(s, c, v) ==
  [s |-> s, c |-> c, err |-> v.err, left |-> v.left, what |-> v.what, at |-> <<>>,
   log |-> <<>>]

\* EraseAt without the seekg: str() has put the read position to 0
EraseAt_no_seekg(s, epos, n, position) ==
  IF EraseThrows(s.str, epos) THEN [threw |-> TRUE, s |-> s]
  ELSE [threw |-> FALSE, s |-> setstr(s, Erase(s.str, epos, n))]

\* str(str().erase(epos, n)); seekg(position)
EraseAt(s, epos, n, position) ==
  IF EraseThrows(s.str, epos) THEN [threw |-> TRUE, s |-> s]
  ELSE [threw |-> FALSE, s |-> seekg(setstr(s, Erase(s.str, epos, n)), position)]

\* t is what tellg() answered behind the token
EraseBefore(t, n, position) ==
  EraseAt(t.s, (ToSizeT(t.pos) - n) % SizeMod, n, position)

\* condline->str(condline->str().erase((size_t)condline->tellg() - tok.size(),
\* tok.size())); condline->seekg(position)
EraseTokenAndReset(s, tok, position) == EraseBefore(tellg(s), Len(tok), position)

\* e is the outcome of EraseTokenAndReset; then container.add(name, value)
Stored(c, name, value, e) ==
  IF e.threw THEN Fail(e.s, c, "std::out_of_range")
  ELSE Ok(e.s, add(c, name, value))

-----------------------------------------------------------------------------
(* SeparatorComponent::read                                                *)

\* SeparatorComponent_read_at with every Separator taken as optional
SeparatorComponent_read_at_optional(comp, s, c, position) ==
  IF position = npos THEN Ok(seekg_end(s), c)
  ELSE Ok(seekg(setstr(s, Erase(s.str, position + 1, Len(comp.separator))),
                position + 1), c)

SeparatorComponent_read_at(comp, s, c, position) ==
  IF position = npos
  THEN IF comp.optional THEN Ok(seekg_end(s), c)
       ELSE Fail(s, c, "RequiredParameterMissing")
  ELSE Ok(seekg(setstr(s, Erase(s.str, position + 1, Len(comp.separator))),
                position + 1), c)

SeparatorComponent_read(comp, s, c) ==
  SeparatorComponent_read_at(comp, s, c, Find(s.str, Padded(comp.separator)))

-----------------------------------------------------------------------------
(* StringComponent::read                                                   *)

\* x is what *condline >> str answered
StringComponent_read_token(comp, c, position, x) ==
  IF x.tok = <<>> THEN Fail(x.s, c, "EmptyValue")
  ELSE Stored(c, comp.name, StrV(x.tok), EraseTokenAndReset(x.s, x.tok, position))

\* t is what tellg() answered
StringComponent_read_at(comp, c, t) ==
  IF ToSizeT(t.pos) # Len(t.s.str)
  THEN StringComponent_read_token(comp, c, t.pos, extract(t.s, comp.defaultvalue))
  ELSE Ok(t.s, add(c, comp.name, StrV(comp.defaultvalue)))

StringComponent_read(comp, s, c) == StringComponent_read_at(comp, c, tellg(s))

-----------------------------------------------------------------------------
(* SelectionComponent::read                                                *)

\* std::find: the first index (1-based) of x in the array
IndexOf(arr, x) == MinOf({i \in 1..Len(arr) : arr[i] = x})

\* SelectionComponent_read_add with the payload of the first label
SelectionComponent_read_add_first(comp, s, c, pos) ==
  Ok(s, add(c, comp.name,
            IF comp.stringtostring THEN StrV(comp.stringcondvalues[1])
            ELSE IntV(comp.intcondvalues[1])))

\* SelectionComponent_read_add with the index of the label stored, not its payload
SelectionComponent_read_add_index(comp, s, c, pos) ==
  Ok(s, add(c, comp.name, IF comp.stringtostring THEN StrV(<<>>) ELSE IntV(pos)))

\* pos: the index of selected_value in datfilevalues_
SelectionComponent_read_add(comp, s, c, pos) ==
  Ok(s, add(c, comp.name,
            IF comp.stringtostring THEN StrV(comp.stringcondvalues[pos])
            ELSE IntV(comp.intcondvalues[pos])))

\* position is already incremented (npos + 1 = 0 when no label was found)
SelectionComponent_read_erase(comp, s, c, position, selected_value) ==
  IF EraseThrows(s.str, position) THEN Fail(s, c, "std::out_of_range")
  ELSE SelectionComponent_read_add(
         comp, seekg(setstr(s, Erase(s.str, position, Len(selected_value))), position),
         c, IndexOf(comp.datfilevalues, selected_value))

\* SelectionComponent_read_loop with a throw when no label is found
SelectionComponent_read_loop_required(comp, s, c, found) ==
  IF found = {} THEN Fail(s, c, "RequiredParameterMissing")
  ELSE SelectionComponent_read_erase(
         comp, s, c, Find(s.str, Padded(comp.datfilevalues[MinOf(found)])) + 1,
         comp.datfilevalues[MinOf(found)])

\* SelectionComponent_read_loop with the label that stands first in the text taken
SelectionComponent_read_loop_leftmost(comp, s, c, found) ==
  IF found = {}
  THEN SelectionComponent_read_erase(comp, s, c, (npos + 1) % SizeMod, comp.defaultvalue)
  ELSE SelectionComponent_read_erase(
         comp, s, c,
         MinOf({Find(s.str, Padded(comp.datfilevalues[i])) : i \in found}) + 1,
         comp.datfilevalues[
           CHOOSE i \in found :
             \A j \in found : Find(s.str, Padded(comp.datfilevalues[i]))
                                <= Find(s.str, Padded(comp.datfilevalues[j]))])

\* found: the indices of the labels that occur in the text, padded
SelectionComponent_read_loop(comp, s, c, found) ==
  IF found = {}
  THEN SelectionComponent_read_erase(comp, s, c, (npos + 1) % SizeMod, comp.defaultvalue)
  ELSE SelectionComponent_read_erase(
         comp, s, c, Find(s.str, Padded(comp.datfilevalues[MinOf(found)])) + 1,
         comp.datfilevalues[MinOf(found)])

SelectionComponent_read(comp, s, c) ==
  SelectionComponent_read_loop(
    comp, s, c,
    {i \in 1..Len(comp.datfilevalues) : Find(s.str, Padded(comp.datfilevalues[i])) # npos})

-----------------------------------------------------------------------------
(* IntComponent::read                                                      *)

\* v is what convert_and_validate_string_to_number answered
IntComponent_read_number(comp, c, position, x, v) ==
  IF v.err # "none" THEN FailConvert(x.s, c, v)
  ELSE Stored(c, comp.name, IntV(v.value), EraseTokenAndReset(x.s, x.tok, position))

\* x is what *condline >> snumber answered; the erase is outside the if
IntComponent_read_token(comp, c, position, x) ==
  IF ~comp.optional \/ x.tok # <<>>
  THEN IntComponent_read_number(
         comp, c, position, x,
         convert_and_validate_string_to_number("int", x.tok, comp.optional))
  ELSE Stored(c, comp.name, IntV(comp.default_value),
              EraseTokenAndReset(x.s, x.tok, position))

IntComponent_read_at(comp, c, t) ==
  IF ToSizeT(t.pos) # Len(t.s.str)
  THEN IntComponent_read_token(comp, c, t.pos, extract(t.s, <<>>))
  ELSE Ok(t.s, add(c, comp.name, IntV(comp.default_value)))

IntComponent_read(comp, s, c) == IntComponent_read_at(comp, c, tellg(s))

-----------------------------------------------------------------------------
(* RealComponent::read                                                     *)

RealComponent_read_number(comp, c, position, x, v) ==
  IF v.err # "none" THEN FailConvert(x.s, c, v)
  ELSE Stored(c, comp.name, RealV(v.value), EraseTokenAndReset(x.s, x.tok, position))

\* the erase is inside the if: nothing of the stream is restored without a token
RealComponent_read_token(comp, c, position, x) ==
  IF ~(comp.optional /\ x.tok = <<>>)
  THEN RealComponent_read_number(
         comp, c, position, x,
         convert_and_validate_string_to_number("double", x.tok, comp.optional))
  ELSE Ok(x.s, add(c, comp.name, RealV(comp.default_value)))

RealComponent_read_at(comp, c, t) ==
  IF ToSizeT(t.pos) # Len(t.s.str)
  THEN RealComponent_read_token(comp, c, t.pos, extract(t.s, <<>>))
  ELSE Ok(t.s, add(c, comp.name, RealV(comp.default_value)))

RealComponent_read(comp, s, c) == RealComponent_read_at(comp, c, tellg(s))

-----------------------------------------------------------------------------
(* IntVectorComponent::read, RealVectorComponent::read                     *)
(* the two differ in the type of the numbers (T) only                      *)

\* LengthFromInt(name): the length is the int stored under the name
LengthFromInt(name, c) == c[name].v

\* LengthVisitor that takes the length of a length definition as 0
LengthVisitor_fixed_only(length, c) == length.n

\* std::visit(LengthVisitor{container}, length_)
LengthVisitor(length, c) ==
  IF length.fixed THEN length.n ELSE LengthFromInt(length.from, c)

\* container.get<int>(name) of LengthFromInt finds an int
LengthResolves(length, c) ==
  length.fixed \/ (length.from \in DOMAIN c /\ c[length.from].t = "int")

\* how the loop over nnumbers ended
LoopEnd(s, nnumbers, e, left, what) ==
  [s |-> s, nnumbers |-> nnumbers, err |-> e, left |-> left, what |-> what]

RECURSIVE VectorLoop(_, _, _, _, _, _)
RECURSIVE VectorLoop_token(_, _, _, _, _, _)
RECURSIVE VectorLoop_number(_, _, _, _, _, _, _)
RECURSIVE VectorLoop_erased(_, _, _, _, _, _)

\* e is the outcome of EraseTokenAndReset for current_number i
VectorLoop_erased(T, comp, nnumbers, i, position, e) ==
  IF e.threw THEN LoopEnd(e.s, nnumbers, "std::out_of_range", <<>>, "")
  ELSE VectorLoop(T, comp, e.s, nnumbers, i + 1, position)

\* v is what convert_and_validate_string_to_number answered
VectorLoop_number(T, comp, nnumbers, i, position, x, v) ==
  IF v.err # "none" THEN LoopEnd(x.s, nnumbers, v.err, v.left, v.what)
  ELSE VectorLoop_erased(T, comp, [nnumbers EXCEPT ![i] = v.value], i, position,
                         EraseTokenAndReset(x.s, x.tok, position))

\* x is what *condline >> snumber answered; break when optional and empty
VectorLoop_token(T, comp, nnumbers, i, position, x) ==
  IF comp.optional /\ x.tok = <<>> THEN LoopEnd(x.s, nnumbers, "none", <<>>, "")
  ELSE VectorLoop_number(T, comp, nnumbers, i, position, x,
                         convert_and_validate_string_to_number(T, x.tok, comp.optional))

\* for (auto& current_number : nnumbers), from current_number i on
VectorLoop(T, comp, s, nnumbers, i, position) ==
  IF i > Len(nnumbers) THEN LoopEnd(s, nnumbers, "none", <<>>, "")
  ELSE VectorLoop_token(T, comp, nnumbers, i, position, extract(s, <<>>))

VectorV(T, nnumbers) == IF T = "int" THEN IntVecV(nnumbers) ELSE RealVecV(nnumbers)

\* r is how the loop ended; then container.add(name(), nnumbers)
VectorRead_add(T, comp, c, r) ==
  IF r.err = "none" THEN Ok(r.s, add(c, comp.name, VectorV(T, r.nnumbers)))
  ELSE [s |-> r.s, c |-> c, err |-> r.err, left |-> r.left, what |-> r.what,
        at |-> <<>>, log |-> <<>>]

\* t is what tellg() answered
VectorRead_at(T, comp, c, nnumbers, t) ==
  IF ToSizeT(t.pos) # Len(t.s.str)
  THEN VectorRead_add(T, comp, c, VectorLoop(T, comp, t.s, nnumbers, 1, t.pos))
  ELSE Ok(t.s, add(c, comp.name, VectorV(T, nnumbers)))

\* std::vector<T> nnumbers(dynamic_length, default): a negative length is a huge
\* size_t
VectorRead_length(T, comp, s, c, dynamic_length) ==
  IF dynamic_length < 0 THEN Fail(s, c, "std::length_error")
  ELSE VectorRead_at(T, comp, c, [i \in 1..dynamic_length |-> comp.default_value],
                     tellg(s))

VectorRead(T, comp, s, c) ==
  IF ~LengthResolves(comp.length, c) THEN Fail(s, c, "InvalidConfiguration")
  ELSE VectorRead_length(T, comp, s, c, LengthVisitor(comp.length, c))

IntVectorComponent_read(comp, s, c) == VectorRead("int", comp, s, c)

RealVectorComponent_read(comp, s, c) == VectorRead("double", comp, s, c)

-----------------------------------------------------------------------------
(* BoolComponent::read                                                     *)

TrueLiterals ==
  {<<"Y", "e", "s">>, <<"Y", "E", "S">>, <<"y", "e", "s">>,
   <<"T", "r", "u", "e">>, <<"T", "R", "U", "E">>, <<"t", "r", "u", "e">>}

FalseLiterals ==
  {<<"N", "o">>, <<"N", "O">>, <<"n", "o">>,
   <<"F", "a", "l", "s", "e">>, <<"F", "A", "L", "S", "E">>, <<"f", "a", "l", "s", "e">>}

\* x is what *condline >> sboolean answered
BoolComponent_read_token(comp, c, position, x) ==
  IF x.tok \in TrueLiterals \cup FalseLiterals
  THEN Stored(c, comp.name, BoolV(x.tok \in TrueLiterals),
              EraseTokenAndReset(x.s, x.tok, position))
  ELSE Fail(x.s, c, "InvalidBooleanLiteral")

BoolComponent_read_at(comp, c, t) ==
  IF ToSizeT(t.pos) # Len(t.s.str)
  THEN BoolComponent_read_token(comp, c, t.pos, extract(t.s, <<>>))
  ELSE Ok(t.s, add(c, comp.name, BoolV(comp.defaultvalue)))

BoolComponent_read(comp, s, c) == BoolComponent_read_at(comp, c, tellg(s))

-----------------------------------------------------------------------------
(* ProcessedComponent::read                                                *)

\* insert_operation_(str, container): the token is stored under the name
insert_operation_(comp, str, c) == add(c, comp.name, StrV(str))

\* e is the outcome of EraseTokenAndReset
ProcessedComponent_read_erased(comp, c, str, e) ==
  IF e.threw THEN Fail(e.s, c, "std::out_of_range")
  ELSE Ok(e.s, insert_operation_(comp, str, c))

ProcessedComponent_read_token(comp, c, position, x) ==
  IF x.tok = <<>> THEN Fail(x.s, c, "EmptyValue")
  ELSE ProcessedComponent_read_erased(comp, c, x.tok,
                                      EraseTokenAndReset(x.s, x.tok, position))

\* nothing is added when the position is the size of the text
ProcessedComponent_read_at(comp, c, t) ==
  IF ToSizeT(t.pos) # Len(t.s.str)
  THEN ProcessedComponent_read_token(comp, c, t.pos, extract(t.s, <<>>))
  ELSE Ok(t.s, c)

ProcessedComponent_read(comp, s, c) == ProcessedComponent_read_at(comp, c, tellg(s))

-----------------------------------------------------------------------------
(* SwitchComponent::read and the virtual call LineComponent::read          *)

\* component_for_key_: the Selection over the labels of the choices, with the
\* keys as payloads and the default key's label as default
component_for_key_(comp) ==
  [kind |-> "Selection", name |-> comp.name, optional |-> FALSE,
   defaultvalue |-> comp.choices[comp.default_key].first,
   datfilevalues |-> [i \in 1..Len(comp.keys) |-> comp.choices[comp.keys[i]].first],
   stringtostring |-> FALSE, stringcondvalues |-> <<>>,
   intcondvalues |-> comp.keys]

RECURSIVE LineComponent_read(_, _, _)
RECURSIVE ReadSubComponents(_, _, _, _, _)
RECURSIVE ReadSubComponents_next(_, _, _, _)

\* r is what the read of component i answered; a throw ends the loop
ReadSubComponents_next(components, i, lg, r) ==
  IF r.err # "none" THEN [r EXCEPT !.at = <<i>> \o r.at, !.log = lg \o r.log]
  ELSE ReadSubComponents(components, i + 1, r.s, r.c, lg \o r.log)

\* for (const auto& component : choices_[key].second), from component i on
ReadSubComponents(components, i, s, c, lg) ==
  IF i > Len(components) THEN [Ok(s, c) EXCEPT !.log = lg]
  ELSE ReadSubComponents_next(components, i, lg,
                              LineComponent_read(components[i], s, c))

\* SwitchComponent_read_key with the components of the default key read, whatever
\* key was stored
SwitchComponent_read_key_default(comp, k) ==
  IF k.err # "none" THEN k
  ELSE IF k.c[comp.name].v \notin DOMAIN comp.choices
  THEN Fail(k.s, k.c, "InternalError")
  ELSE ReadSubComponents(comp.choices[comp.default_key].second, 1, k.s, k.c, <<>>)

\* k is what component_for_key_->read answered
SwitchComponent_read_key(comp, k) ==
  IF k.err # "none" THEN k
  ELSE IF k.c[comp.name].v \notin DOMAIN comp.choices
  THEN Fail(k.s, k.c, "InternalError")
  ELSE ReadSubComponents(comp.choices[k.c[comp.name].v].second, 1, k.s, k.c, <<>>)

SwitchComponent_read(comp, s, c) ==
  SwitchComponent_read_key(comp, SelectionComponent_read(component_for_key_(comp), s, c))

\* the names of the components whose read was invoked, in order
Logged(comp, r) == [r EXCEPT !.log = <<comp.name>> \o r.log]

\* component->read(section_name, condline, container)
LineComponent_read(comp, s, c) ==
  Logged(comp,
         CASE comp.kind = "Separator" -> SeparatorComponent_read(comp, s, c)
           [] comp.kind = "String" -> StringComponent_read(comp, s, c)
           [] comp.kind = "Selection" -> SelectionComponent_read(comp, s, c)
           [] comp.kind = "Int" -> IntComponent_read(comp, s, c)
           [] comp.kind = "IntVector" -> IntVectorComponent_read(comp, s, c)
           [] comp.kind = "Real" -> RealComponent_read(comp, s, c)
           [] comp.kind = "RealVector" -> RealVectorComponent_read(comp, s, c)
           [] comp.kind = "Bool" -> BoolComponent_read(comp, s, c)
           [] comp.kind = "Switch" -> SwitchComponent_read(comp, s, c)
           [] comp.kind = "Processed" -> ProcessedComponent_read(comp, s, c))

-----------------------------------------------------------------------------
(* Construction of components                                              *)

\* the name every SeparatorComponent is given
SeparatorName == "*SEPARATOR*"

SeparatorComponent(separator, optional) ==
  [kind |-> "Separator", name |-> SeparatorName, separator |-> separator,
   optional |-> optional]

StringComponent(name, defaultvalue, optional) ==
  [kind |-> "String", name |-> name, defaultvalue |-> defaultvalue,
   optional |-> optional]

\* the Selection with integer payloads; optional is not handed to LineComponent
SelectionComponentInt(name, defaultvalue, datfilevalues, intcondvalues) ==
  [kind |-> "Selection", name |-> name, optional |-> FALSE,
   defaultvalue |-> defaultvalue, datfilevalues |-> datfilevalues,
   stringtostring |-> FALSE, stringcondvalues |-> <<>>,
   intcondvalues |-> intcondvalues]

\* the Selection with string payloads
SelectionComponentString(name, defaultvalue, datfilevalues, stringcondvalues) ==
  [kind |-> "Selection", name |-> name, optional |-> FALSE,
   defaultvalue |-> defaultvalue, datfilevalues |-> datfilevalues,
   stringtostring |-> TRUE, stringcondvalues |-> stringcondvalues,
   intcondvalues |-> <<>>]

IntComponent(name, default_value, optional) ==
  [kind |-> "Int", name |-> name, default_value |-> default_value,
   optional |-> optional]

RealComponent(name, default_value, optional) ==
  [kind |-> "Real", name |-> name, default_value |-> default_value,
   optional |-> optional]

BoolComponent(name, defaultvalue, optional) ==
  [kind |-> "Bool", name |-> name, defaultvalue |-> defaultvalue,
   optional |-> optional]

FixedLength(n) == [fixed |-> TRUE, n |-> n, from |-> ""]

DerivedLength(name) == [fixed |-> FALSE, n |-> 0, from |-> name]

\* IntVectorComponent: with a fixed length data.optional reaches LineComponent, with
\* a length definition it does not (LineComponent(name) alone); data_optional is
\* data_.optional, optional is optional_
IntVectorComponent(name, length, default_value, optional) ==
  [kind |-> "IntVector", name |-> name, length |-> length,
   default_value |-> default_value, data_optional |-> optional,
   optional |-> IF length.fixed THEN optional ELSE FALSE]

\* RealVectorComponent: data.optional reaches LineComponent in both constructors
RealVectorComponent(name, length, default_value, optional) ==
  [kind |-> "RealVector", name |-> name, length |-> length,
   default_value |-> default_value, data_optional |-> optional,
   optional |-> optional]

\* choices_[default_key_] of the constructor: std::map::operator[] inserts an entry
\* with an empty label and no components when the key is not in the map
SwitchComponent_choices(default_key, choices) ==
  [k \in DOMAIN choices \cup {default_key} |->
     IF k \in DOMAIN choices THEN choices[k] ELSE [first |-> <<>>, second |-> <<>>]]

\* keys: the keys of choices in increasing order (the order of the std::map), as
\* the loop of the constructor finds them before choices_[default_key_] is evaluated
SwitchComponent(name, default_key, keys, choices) ==
  [kind |-> "Switch", name |-> name, optional |-> FALSE,
   default_key |-> default_key, keys |-> keys,
   choices |-> SwitchComponent_choices(default_key, choices)]

\* the two checks of the constructors of SelectionComponent
SelectionComponent_throws(comp) ==
  \/ \A i \in 1..Len(comp.datfilevalues) : comp.datfilevalues[i] # comp.defaultvalue
  \/ Len(comp.datfilevalues) #
        Len(IF comp.stringtostring THEN comp.stringcondvalues ELSE comp.intcondvalues)

\* the constructor of SwitchComponent throws what the constructor of its
\* component_for_key_ throws
SwitchComponent_throws(comp) == SelectionComponent_throws(component_for_key_(comp))

\* the constructor of the component throws
Constructor_throws(comp) ==
  CASE comp.kind = "Selection" -> SelectionComponent_throws(comp)
    [] comp.kind = "Switch" -> SwitchComponent_throws(comp)
    [] OTHER -> FALSE

ProcessedComponent(name, optional) ==
  [kind |-> "Processed", name |-> name, optional |-> optional]

-----------------------------------------------------------------------------
(* default_line: the text a component writes for its default               *)

\* std::to_string(int), which operator<<(int) writes too
RECURSIVE to_string(_)
to_string(n) ==
  IF n < 0 THEN <<"-">> \o to_string(0 - n)
  ELSE IF n < 10 THEN <<DigitChars[n + 1]>>
  ELSE to_string(n \div 10) \o <<DigitChars[(n % 10) + 1]>>

RECURSIVE Pow10(_)
Pow10(k) == IF k = 0 THEN 1 ELSE 10 * Pow10(k - 1)

\* the digits behind the point: digits is the fraction as a number, padded with
\* zeros in front to scale digits
FractionDigits(digits, scale) ==
  [i \in 1..(scale - Len(digits)) |-> "0"] \o digits

\* stream << double in the default format (%g with precision 6), for a double
\* mant / 10^scale of at most 6 significant digits and 0.0001 <= |x| < 1000000,
\* or 0: the shortest decimal literal of the value
ostream_double(x) ==
  IF x.scale = 0 THEN to_string(x.mant)
  ELSE (IF x.mant < 0 THEN <<"-">> ELSE <<>>)
         \o to_string((IF x.mant < 0 THEN 0 - x.mant ELSE x.mant) \div Pow10(x.scale))
         \o <<".">>
         \o FractionDigits(
              to_string((IF x.mant < 0 THEN 0 - x.mant ELSE x.mant) % Pow10(x.scale)),
              x.scale)

\* BoolComponent::lineTrue_, lineFalse_
lineTrue_ == <<"Y", "e", "s">>
lineFalse_ == <<"N", "o">>

print_yes_no(value) == IF value THEN lineTrue_ ELSE lineFalse_

\* std::visit(DefaultLengthVisitor{}, length_): 1 for a length definition
DefaultLengthVisitor(length) == IF length.fixed THEN length.n ELSE 1

\* text written n times
RECURSIVE Repeated(_, _)
Repeated(text, n) == IF n <= 0 THEN <<>> ELSE text \o Repeated(text, n - 1)

\* each default is followed by a blank
IntVectorComponent_default_line(comp) ==
  Repeated(to_string(comp.default_value) \o <<SP>>, DefaultLengthVisitor(comp.length))

\* nothing is written between the defaults
RealVectorComponent_default_line(comp) ==
  Repeated(ostream_double(comp.default_value), DefaultLengthVisitor(comp.length))

RECURSIVE default_line(_)
RECURSIVE SwitchComponent_default_line_components(_, _)

\* for (const auto& component : choices_[default_key_].second), from component i on
SwitchComponent_default_line_components(components, i) ==
  IF i > Len(components) THEN <<>>
  ELSE default_line(components[i]) \o <<SP>>
         \o SwitchComponent_default_line_components(components, i + 1)

SwitchComponent_default_line(comp) ==
  default_line(component_for_key_(comp)) \o <<SP>>
    \o SwitchComponent_default_line_components(comp.choices[comp.default_key].second, 1)

\* component->default_line(stream)
default_line(comp) ==
  CASE comp.kind = "Separator" -> comp.separator
    [] comp.kind = "String" -> comp.defaultvalue
    [] comp.kind = "Selection" -> comp.defaultvalue
    [] comp.kind = "Int" -> to_string(comp.default_value)
    [] comp.kind = "IntVector" -> IntVectorComponent_default_line(comp)
    [] comp.kind = "Real" -> ostream_double(comp.default_value)
    [] comp.kind = "RealVector" -> RealVectorComponent_default_line(comp)
    [] comp.kind = "Bool" -> print_yes_no(comp.defaultvalue)
    [] comp.kind = "Switch" -> SwitchComponent_default_line(comp)
    [] comp.kind = "Processed" -> <<"n", "o", "n", "e">>

\* the default line of a record: the default lines of its components, a blank
\* between one and the next
RECURSIVE default_lines(_, _)
default_lines(components, i) ==
  IF i > Len(components) THEN <<>>
  ELSE IF i = Len(components) THEN default_line(components[i])
  ELSE default_line(components[i]) \o <<SP>> \o default_lines(components, i + 1)

-----------------------------------------------------------------------------
(* The kinetics condition of Inpar::SSI::set_valid_conditions              *)

L_NUMSCAL == <<"N", "U", "M", "S", "C", "A", "L">>
L_STOICHIOMETRIES == <<"S", "T", "O", "I", "C", "H", "I", "O", "M", "E", "T", "R", "I", "E", "S">>
L_ONOFF == <<"O", "N", "O", "F", "F">>
L_RESISTANCE == <<"R", "E", "S", "I", "S", "T", "A", "N", "C", "E">>
L_E == <<"E", "-">>
L_K_R == <<"K", "_", "R">>
L_ALPHA_A == <<"A", "L", "P", "H", "A", "_", "A">>
L_ALPHA_C == <<"A", "L", "P", "H", "A", "_", "C">>
L_KINETIC_MODEL == <<"K", "I", "N", "E", "T", "I", "C", "_", "M", "O", "D", "E", "L">>
L_ConstantInterfaceResistance == <<"C", "o", "n", "s", "t", "a", "n", "t", "I", "n", "t", "e", "r", "f", "a", "c", "e", "R", "e", "s", "i", "s", "t", "a", "n", "c", "e">>
L_ButlerVolmerReduced == <<"B", "u", "t", "l", "e", "r", "-", "V", "o", "l", "m", "e", "r", "R", "e", "d", "u", "c", "e", "d">>
L_NoInterfaceFlux == <<"N", "o", "I", "n", "t", "e", "r", "f", "a", "c", "e", "F", "l", "u", "x">>

\* the keys of kinetic_model_choices (enum Inpar::S2I::KineticModels); only their
\* order and their being distinct matter
kinetics_butlervolmerreduced == 4
kinetics_constantinterfaceresistance == 10
kinetics_nointerfaceflux == 11

constantinterfaceresistance ==
  <<SeparatorComponent(L_ONOFF, FALSE),
    IntVectorComponent("ONOFF", FixedLength(2), 0, FALSE),
    SeparatorComponent(L_RESISTANCE, FALSE),
    RealComponent("RESISTANCE", RealOfInt(0), FALSE),
    SeparatorComponent(L_E, FALSE),
    IntComponent("E-", 0, FALSE)>>

butlervolmerreduced ==
  <<SeparatorComponent(L_NUMSCAL, FALSE),
    IntComponent("NUMSCAL", 0, FALSE),
    SeparatorComponent(L_STOICHIOMETRIES, FALSE),
    IntVectorComponent("STOICHIOMETRIES", DerivedLength("NUMSCAL"), 0, FALSE),
    SeparatorComponent(L_E, FALSE),
    IntComponent("E-", 0, FALSE),
    SeparatorComponent(L_K_R, FALSE),
    RealComponent("K_R", RealOfInt(0), FALSE),
    SeparatorComponent(L_ALPHA_A, FALSE),
    RealComponent("ALPHA_A", RealOfInt(0), FALSE),
    SeparatorComponent(L_ALPHA_C, FALSE),
    RealComponent("ALPHA_C", RealOfInt(0), FALSE)>>

noflux == <<>>

kinetic_model_keys ==
  <<kinetics_butlervolmerreduced, kinetics_constantinterfaceresistance,
    kinetics_nointerfaceflux>>

kinetic_model_choices ==
  [k \in {kinetics_butlervolmerreduced, kinetics_constantinterfaceresistance,
          kinetics_nointerfaceflux} |->
     IF k = kinetics_constantinterfaceresistance
     THEN [first |-> L_ConstantInterfaceResistance, second |-> constantinterfaceresistance]
     ELSE IF k = kinetics_butlervolmerreduced
     THEN [first |-> L_ButlerVolmerReduced, second |-> butlervolmerreduced]
     ELSE [first |-> L_NoInterfaceFlux, second |-> noflux]]

\* the components added to surfmanifoldkinetics for the kinetic model
surfmanifoldkinetics ==
  <<SeparatorComponent(L_KINETIC_MODEL, FALSE),
    SwitchComponent("KINETIC_MODEL", kinetics_constantinterfaceresistance,
                    kinetic_model_keys, kinetic_model_choices)>>

\* the first four components of butlervolmerreduced: NUMSCAL and STOICHIOMETRIES
numscal_stoichiometries == SubSeq(butlervolmerreduced, 1, 4)

-----------------------------------------------------------------------------
(* Inputs: component lists and lines                                       *)

L_A == <<"A">>
L_AA == <<"A", "A">>

\* defaults of the generic components
DefaultInt == 7
DefaultReal == NormReal(15, 1)
DefaultString == <<"d">>

\* the characters of the generic lines: the blank, a digit, a letter
Alphabet == {SP, "1", "A"}

\* every line of at most MaxTextLen characters
Texts == UNION {[1..n -> Alphabet] : n \in 0..MaxTextLen}

Separators == {SeparatorComponent(L_A, o) : o \in BOOLEAN}

Scalars ==
  UNION {{IntComponent("i", DefaultInt, o), RealComponent("r", DefaultReal, o),
          StringComponent("s", DefaultString, o), BoolComponent("b", TRUE, o)}
         : o \in BOOLEAN}

Vectors ==
  UNION {{IntVectorComponent("iv", FixedLength(n), DefaultInt, o),
          RealVectorComponent("rv", FixedLength(n), DefaultReal, o)}
         : n \in 0..MaxVecLen, o \in BOOLEAN}

SelectionAB == SelectionComponentInt("sel", L_AA, <<L_A, L_AA>>, <<10, 20>>)

SelectionBA ==
  SelectionComponentString("sel", L_A, <<L_AA, L_A>>, <<<<"x">>, <<"y">>>>)

Selections == {SelectionAB, SelectionBA}

Values == Scalars \cup Vectors \cup {ProcessedComponent("p", FALSE)}

Components == Separators \cup Values \cup Selections

\* what is read before the component under study: nothing or a Separator
Prefixes == {<<>>} \cup {<<d>> : d \in Separators}

\* an optional Real read first: on a line without a token it leaves the stream failed
TokenlessFirst == RealComponent("r0", DefaultReal, TRUE)

Programs ==
  {pfx \o <<d>> : pfx \in Prefixes, d \in Components}
  \cup {<<TokenlessFirst, sep, IntComponent("i", DefaultInt, o)>> :
          sep \in Separators, o \in BOOLEAN}
  \cup {<<sel, IntComponent("i", DefaultInt, FALSE)>> : sel \in Selections}
  \cup {<<SeparatorComponent(L_A, TRUE), d, StringComponent("s", DefaultString, FALSE)>> :
          d \in {IntComponent("i", DefaultInt, FALSE),
                 RealVectorComponent("rv", FixedLength(1), DefaultReal, FALSE),
                 SelectionAB}}

L_B == <<"B">>

\* a Separator found behind the tokens, then an optional Real or vector that finds
\* no token, then what is read after it
LabelPrograms ==
  {<<SeparatorComponent(L_B, FALSE), first, SeparatorComponent(L_A, o),
     IntComponent("i", DefaultInt, FALSE)>> :
     first \in {TokenlessFirst,
                RealVectorComponent("rv", FixedLength(1), DefaultReal, TRUE)},
     o \in BOOLEAN}
  \cup {<<SeparatorComponent(L_B, FALSE), TokenlessFirst, sel>> : sel \in Selections}

\* words joined by single blanks
RECURSIVE Join(_)
Join(words) ==
  IF Len(words) = 0 THEN <<>>
  ELSE IF Len(words) = 1 THEN words[1]
  ELSE words[1] \o <<SP>> \o Join(Tail(words))

\* with or without a blank in front and behind
Pads == {<<>>, <<SP>>}

Framed(text) == {lead \o text \o trail : lead \in Pads, trail \in Pads}

\* lines of at most MaxWords words
LabelTexts ==
  UNION {Framed(Join(ws)) :
           ws \in UNION {[1..k -> {L_A, L_AA, L_B, <<"1">>}] : k \in 0..MaxWords}}

\* tokens of the value family: boolean literals in a spelling the code lists, in
\* mixed case and none; numbers; a number with characters behind it; a word; an
\* integer beyond IntMax
ValueTokens ==
  {<<"Y", "E", "S">>, <<"y", "E", "s">>, <<"N", "o">>, <<"m", "a", "y", "b", "e">>,
   <<"3", ".", "1", "4", "a", "b", "c">>, <<"3", ".", "1", "4">>, <<"1", "2">>,
   <<"-", "1">>, <<"a", "b", "c">>,
   <<"2", "1", "4", "7", "4", "8", "3", "6", "4", "8">>}

\* lines of at most MaxTokens tokens
ValueTexts ==
  UNION {Framed(Join(ws)) : ws \in UNION {[1..k -> ValueTokens] : k \in 0..MaxTokens}}

\* one component that reads a value, with either default where the default matters;
\* an Int and a vector whose length is the value of the Int
ValuePrograms ==
  {<<d>> : d \in Values
                 \cup UNION {{BoolComponent("b", FALSE, o), StringComponent("s", <<>>, o)}
                             : o \in BOOLEAN}
                 \cup {ProcessedComponent("p", TRUE)}}
  \cup {<<IntComponent("n", 2, FALSE), v>> :
          v \in UNION {{RealVectorComponent("rv", DerivedLength("n"), DefaultReal, o),
                        IntVectorComponent("iv", DerivedLength("n"), DefaultInt, o)}
                       : o \in BOOLEAN}}

\* the token of the number n, 0 <= n <= 9
NumTok(n) == <<DigitChars[n + 1]>>

StoichTokens == {<<"1">>, <<"-", "1">>, <<"0">>}

\* "NUMSCAL n STOICHIOMETRIES v1 ... vk"
NumscalLine(n, vs) == Join(<<L_NUMSCAL, NumTok(n), L_STOICHIOMETRIES>> \o vs)

NumscalTexts ==
  UNION {Framed(NumscalLine(n, vs)) :
           n \in 0..MaxN, vs \in UNION {[1..k -> StoichTokens] : k \in 0..MaxN}}

T_2_5 == <<"2", ".", "5">>
T_0_5 == <<"0", ".", "5">>

\* valid tokens of the sub-components of constantinterfaceresistance
ResistanceTokens ==
  {<<L_ONOFF, a, b, L_RESISTANCE, T_2_5, L_E, <<"1">>>> : a \in {<<"0">>, <<"1">>},
                                                         b \in {<<"0">>, <<"1">>}}

\* valid tokens of the sub-components of butlervolmerreduced
ButlerVolmerTokens ==
  {<<L_NUMSCAL, NumTok(Len(vs)), L_STOICHIOMETRIES>> \o vs
     \o <<L_E, <<"1">>, L_K_R, T_2_5, L_ALPHA_A, T_0_5, L_ALPHA_C, T_0_5>>
   : vs \in UNION {[1..k -> {<<"1">>, <<"-", "1">>}] : k \in 1..MaxStoich}}

\* valid tokens of the sub-components of the choice of key k
TokensOf(k) ==
  IF k = kinetics_constantinterfaceresistance THEN ResistanceTokens
  ELSE IF k = kinetics_butlervolmerreduced THEN ButlerVolmerTokens
  ELSE {<<>>}

KineticKeys == DOMAIN kinetic_model_choices

\* "KINETIC_MODEL <label of k> <tokens of k2>"
KineticLine(k, toks) ==
  Join(<<L_KINETIC_MODEL, kinetic_model_choices[k].first>> \o toks)

\* the same without any label of a choice
KineticLineNoLabel(toks) == Join(<<L_KINETIC_MODEL>> \o toks)

KineticTexts ==
  UNION {Framed(KineticLine(k, toks)) : k \in KineticKeys,
                                        toks \in UNION {TokensOf(k2) : k2 \in KineticKeys}}
  \cup UNION {Framed(KineticLineNoLabel(toks)) :
                toks \in UNION {TokensOf(k2) : k2 \in KineticKeys}}

\* declarations of Selections, with integer and with string payloads: the default
\* among the labels or not, as many payloads as labels or not
DeclaredSelections ==
  {SelectionComponentInt("sel", dv, labels, payloads) :
     dv \in {L_A, L_AA, L_B}, labels \in {<<>>, <<L_A>>, <<L_A, L_AA>>},
     payloads \in {<<>>, <<10>>, <<10, 20>>}}
  \cup {SelectionComponentString("sel", dv, labels, payloads) :
          dv \in {L_A, L_AA, L_B}, labels \in {<<>>, <<L_A>>, <<L_A, L_AA>>},
          payloads \in {<<>>, <<<<"x">>>>, <<<<"x">>, <<"y">>>>}}

\* choices of Switches with the keys 1 and 2, one with an empty label
DeclaredChoices ==
  {[keys |-> <<>>, choices |-> <<>>],
   [keys |-> <<1>>, choices |-> <<[first |-> L_A, second |-> <<>>]>>],
   [keys |-> <<1>>, choices |-> <<[first |-> <<>>, second |-> <<>>]>>],
   [keys |-> <<1, 2>>,
    choices |-> <<[first |-> L_A, second |-> <<IntComponent("i", DefaultInt, TRUE)>>],
                  [first |-> L_AA, second |-> <<>>]>>]}

\* one declared Selection, or a Switch over declared choices whose default key is
\* a key of the choices or not
DeclaredPrograms ==
  {<<d>> : d \in DeclaredSelections}
  \cup {<<SwitchComponent("sw", k, d.keys, d.choices)>> : k \in 1..3, d \in DeclaredChoices}

\* a Switch whose first choice holds another Switch and a String behind it
NestedSwitch ==
  SwitchComponent(
    "outer", 2, <<1, 2>>,
    <<[first |-> L_A,
       second |-> <<SwitchComponent(
                      "inner", 2, <<1, 2>>,
                      <<[first |-> L_AA,
                         second |-> <<IntComponent("i", DefaultInt, FALSE)>>],
                        [first |-> L_B, second |-> <<>>]>>),
                    StringComponent("s", DefaultString, FALSE)>>],
      [first |-> <<"1">>, second |-> <<IntComponent("j", DefaultInt, TRUE)>>]>>)

\* the records whose default line is read back
RoundTripPrograms ==
  {pr \in Programs : \A i \in 1..Len(pr) : pr[i].kind # "Processed"}
  \cup {numscal_stoichiometries, surfmanifoldkinetics}

-----------------------------------------------------------------------------
(* The reader of one record: the components are read in order on one       *)
(* stream and one container; a throw ends the record                       *)

\* the state before the first read of the components cs on the line text; when
\* the constructor of one of them threw, no record is read
Start(cs, text) ==
  /\ comps = cs
  /\ line = text
  /\ condline = Stream(text)
  /\ container = EmptyContainer
  /\ idx = 0
  /\ err = IF \E i \in 1..Len(cs) : Constructor_throws(cs[i])
           THEN "InvalidConfiguration" ELSE "none"
  /\ errat = <<>>
  /\ errleft = <<>>
  /\ errwhat = ""
  /\ log = <<>>
  /\ pre = [s |-> Stream(text), c |-> EmptyContainer]
  /\ skipped = FALSE

Init ==
  \/ \E pr \in Programs, tx \in Texts : Start(pr, tx)
  \/ \E pr \in LabelPrograms, tx \in LabelTexts : Start(pr, tx)
  \/ \E pr \in ValuePrograms, tx \in ValueTexts : Start(pr, tx)
  \/ \E pr \in RoundTripPrograms : \E tx \in Framed(default_lines(pr, 1)) : Start(pr, tx)
  \/ \E pr \in DeclaredPrograms, tx \in Texts : Start(pr, tx)
  \/ \E sel \in Selections \cup {NestedSwitch}, tx \in LabelTexts : Start(<<sel>>, tx)
  \/ \E tx \in NumscalTexts : Start(numscal_stoichiometries, tx)
  \/ \E tx \in KineticTexts : Start(surfmanifoldkinetics, tx)

\* r is what the read of the next component answered
Returned(r) ==
  /\ condline' = r.s
  /\ container' = r.c
  /\ err' = r.err
  /\ errat' = IF r.err = "none" THEN <<>> ELSE <<idx + 1>> \o r.at
  /\ errleft' = r.left
  /\ errwhat' = r.what
  /\ log' = log \o r.log
  /\ idx' = idx + 1
  /\ pre' = [s |-> condline, c |-> container]
  /\ UNCHANGED <<comps, line>>

\* whether the read of comp on the text str leaves the stream skipped to the end:
\* an optional Separator without its label does, a Separator or Selection that
\* finds a label (a Switch reads its Selection) ends it
Skipped(comp, str) ==
  IF comp.kind = "Separator"
  THEN Find(str, Padded(comp.separator)) = npos /\ (comp.optional \/ skipped)
  ELSE IF comp.kind = "Selection"
  THEN skipped /\ \A i \in 1..Len(comp.datfilevalues) :
                    Find(str, Padded(comp.datfilevalues[i])) = npos
  ELSE comp.kind # "Switch" /\ skipped

\* the record goes on and its next component is of this kind
NextIs(kind) ==
  /\ err = "none"
  /\ idx < Len(comps)
  /\ comps[idx + 1].kind = kind

\* component->read(section_name, condline, container) of the next component
Invoke ==
  /\ Returned(LineComponent_read(comps[idx + 1], condline, container))
  /\ skipped' = Skipped(comps[idx + 1], condline.str)

ReadSeparator ==
  /\ NextIs("Separator")
  /\ Invoke

ReadString ==
  /\ NextIs("String")
  /\ Invoke

ReadSelection ==
  /\ NextIs("Selection")
  /\ Invoke

ReadInt ==
  /\ NextIs("Int")
  /\ Invoke

ReadIntVector ==
  /\ NextIs("IntVector")
  /\ Invoke

ReadReal ==
  /\ NextIs("Real")
  /\ Invoke

ReadRealVector ==
  /\ NextIs("RealVector")
  /\ Invoke

ReadBool ==
  /\ NextIs("Bool")
  /\ Invoke

ReadSwitch ==
  /\ NextIs("Switch")
  /\ Invoke

ReadProcessed ==
  /\ NextIs("Processed")
  /\ Invoke

Next ==
  \/ ReadSeparator
  \/ ReadString
  \/ ReadSelection
  \/ ReadInt
  \/ ReadIntVector
  \/ ReadReal
  \/ ReadRealVector
  \/ ReadBool
  \/ ReadSwitch
  \/ ReadProcessed

Spec == Init /\ [][Next]_vars

-----------------------------------------------------------------------------
(* Properties.  What they read of a state: comps[idx] is the component     *)
(* whose read was invoked last, pre the stream and the container before    *)
(* that read, condline/container/err what it left                          *)

\* a read of a component of one of these kinds has just returned or thrown
LastIs(kinds) == idx > 0 /\ comps[idx].kind \in kinds

\* the record is over: a read threw or every component was read
RecordDone == err # "none" \/ idx = Len(comps)

\* the characters from the read position of the stream on
Rest(s) == SubSeq(s.str, s.g + 1, Len(s.str))

\* no token in the text: nothing but white space
NoToken(text) == \A i \in 1..Len(text) : isspace(text[i])

\* the number of characters before the first white space
RECURSIVE WordLen(_)
WordLen(text) ==
  IF text = <<>> \/ isspace(Head(text)) THEN 0 ELSE 1 + WordLen(Tail(text))

\* the tokens of a text, in order
RECURSIVE Words(_)
Words(text) ==
  IF text = <<>> THEN <<>>
  ELSE IF isspace(Head(text)) THEN Words(Tail(text))
  ELSE <<SubSeq(text, 1, WordLen(text))>>
         \o Words(SubSeq(text, WordLen(text) + 1, Len(text)))

\* an unsigned decimal integer
IsNumber(tok) == tok # <<>> /\ \A i \in 1..Len(tok) : isdigit(tok[i])

RECURSIVE NumberOf(_)
NumberOf(tok) ==
  IF tok = <<>> THEN 0
  ELSE 10 * NumberOf(SubSeq(tok, 1, Len(tok) - 1)) + DigitVal(tok[Len(tok)])

\* the declared default of a scalar component, as the container holds it
DefaultOf(comp) ==
  CASE comp.kind = "Int" -> IntV(comp.default_value)
    [] comp.kind = "Real" -> RealV(comp.default_value)
    [] comp.kind = "String" -> StrV(comp.defaultvalue)
    [] comp.kind = "Bool" -> BoolV(comp.defaultvalue)
    [] comp.kind = "IntVector" ->
         IntVecV([i \in 1..comp.length.n |-> comp.default_value])
    [] comp.kind = "RealVector" ->
         RealVecV([i \in 1..comp.length.n |-> comp.default_value])

\* the label i of a Selection occurs in the text, a blank on each side
Occurs(comp, i, text) == Find(text, Padded(comp.datfilevalues[i])) # npos

\* the payload paired with label i
Payload(comp, i) ==
  IF comp.stringtostring THEN StrV(comp.stringcondvalues[i])
  ELSE IntV(comp.intcondvalues[i])

\* the values of the STOICHIOMETRIES tokens
StoichValue(tok) ==
  IF tok = <<"1">> THEN 1 ELSE IF tok = <<"-", "1">> THEN 0 - 1 ELSE 0

\* C1: reading [Separator NUMSCAL, Int NUMSCAL, Separator STOICHIOMETRIES,
\* IntVector STOICHIOMETRIES of length NUMSCAL] over the line
\* "NUMSCAL n STOICHIOMETRIES v1 ... vn" (as written, or with a blank in front of
\* it) succeeds and leaves the container {NUMSCAL: n, STOICHIOMETRIES: [v1..vn]}
C1_NumscalStoichiometries ==
  \A n \in 0..MaxN : \A vs \in [1..n -> StoichTokens] : \A lead \in Pads :
    (/\ comps = numscal_stoichiometries
     /\ line = lead \o NumscalLine(n, vs)
     /\ RecordDone)
    => /\ err = "none"
       /\ container =
            add(add(EmptyContainer, "NUMSCAL", IntV(n)), "STOICHIOMETRIES",
                IntVecV([i \in 1..n |-> StoichValue(vs[i])]))

\* C2: a vector of fixed length n whose read starts with n valid numeric tokens
\* next in the text succeeds, stores exactly the n values of these tokens in
\* order, and removes exactly these n tokens
C2_FixedVectorReadsTokens ==
  (/\ LastIs({"IntVector", "RealVector"})
   /\ comps[idx].length.fixed
   /\ good(pre.s)
   /\ Len(Words(Rest(pre.s))) >= comps[idx].length.n
   /\ \A i \in 1..comps[idx].length.n : IsNumber(Words(Rest(pre.s))[i]))
  => /\ err = "none"
     /\ comps[idx].name \in DOMAIN container
     /\ container[comps[idx].name] =
          IF comps[idx].kind = "IntVector"
          THEN IntVecV([i \in 1..comps[idx].length.n |->
                          NumberOf(Words(Rest(pre.s))[i])])
          ELSE RealVecV([i \in 1..comps[idx].length.n |->
                           RealOfInt(NumberOf(Words(Rest(pre.s))[i]))])
     /\ Words(condline.str) =
          Words(SubSeq(pre.s.str, 1, pre.s.g))
            \o SubSeq(Words(Rest(pre.s)), comps[idx].length.n + 1,
                      Len(Words(Rest(pre.s))))

\* C3 as stated: a mandatory Int or Real whose read finds no token from the read
\* position to the end of the text fails with MissingValue
C3_MandatoryNoTokenFails ==
  (/\ LastIs({"Int", "Real"})
   /\ ~comps[idx].optional
   /\ good(pre.s)
   /\ NoToken(Rest(pre.s)))
  => err = "MissingValue"

\* C3 amended: a mandatory Int or Real fails with MissingValue, the container
\* untouched, when white space and nothing else is left behind the read
\* position; when the read position is the end of the text it raises no error
\* and stores the declared default, leaving the stream as it was
C3_MandatoryBlankFailsEndDefaults ==
  (/\ LastIs({"Int", "Real"})
   /\ ~comps[idx].optional
   /\ good(pre.s)
   /\ NoToken(Rest(pre.s)))
  => IF pre.s.g < Len(pre.s.str)
     THEN err = "MissingValue" /\ container = pre.c
     ELSE /\ err = "none"
          /\ container = add(pre.c, comps[idx].name, DefaultOf(comps[idx]))
          /\ condline = pre.s

\* a mandatory Int, read behind a label that was removed, has thrown MissingValue
\* on the blanks left behind the read position
C3_Witness ==
  /\ LastIs({"Int"})
  /\ ~comps[idx].optional
  /\ good(pre.s)
  /\ NoToken(Rest(pre.s))
  /\ pre.s.g > 0
  /\ pre.s.g < Len(pre.s.str)
  /\ err = "MissingValue"

\* C4: an optional String, Int, Real or Bool whose read finds no token from the
\* read position on (the position is the end of the text, or only white space is
\* left) succeeds, the container holds the declared default under its name, and
\* text and read position are as before the read
C4_OptionalNoTokenDefaults ==
  (/\ LastIs({"String", "Int", "Real", "Bool"})
   /\ comps[idx].optional
   /\ good(pre.s)
   /\ NoToken(Rest(pre.s)))
  => /\ err = "none"
     /\ container = add(pre.c, comps[idx].name, DefaultOf(comps[idx]))
     /\ condline.str = pre.s.str
     /\ tellg(condline).pos = pre.s.g

\* C5: when exactly one accepted label of a Selection occurs in the text, a
\* blank on each side, the read stores under the Selection's name the payload
\* paired with that label, wherever the label stands and whatever the read
\* position was
C5_SelectionStoresPayload ==
  LastIs({"Selection"})
  => \A i \in 1..Len(comps[idx].datfilevalues) :
       (/\ Occurs(comps[idx], i, pre.s.str)
        /\ \A j \in 1..Len(comps[idx].datfilevalues) :
             Occurs(comps[idx], j, pre.s.str) => j = i)
       => /\ err = "none"
          /\ container = add(pre.c, comps[idx].name, Payload(comps[idx], i))

\* a Selection has stored the payload of a label that is not its default and that
\* stands before the read position
C5_Witness ==
  /\ LastIs({"Selection"})
  /\ pre.s.g > 1
  /\ \E i \in 1..Len(comps[idx].datfilevalues) :
       /\ comps[idx].datfilevalues[i] # comps[idx].defaultvalue
       /\ Occurs(comps[idx], i, pre.s.str)
       /\ Find(pre.s.str, Padded(comps[idx].datfilevalues[i])) < pre.s.g
       /\ \A j \in 1..Len(comps[idx].datfilevalues) :
            Occurs(comps[idx], j, pre.s.str) => j = i
       /\ container[comps[idx].name] = Payload(comps[idx], i)

\* C6: when no accepted label of a Selection occurs in the text, the read raises
\* no error and stores under the Selection's name the payload paired with the
\* declared default label
C6_SelectionAbsentStoresDefault ==
  (/\ LastIs({"Selection"})
   /\ \A j \in 1..Len(comps[idx].datfilevalues) : ~Occurs(comps[idx], j, pre.s.str))
  => /\ err = "none"
     /\ \E i \in 1..Len(comps[idx].datfilevalues) :
          /\ comps[idx].datfilevalues[i] = comps[idx].defaultvalue
          /\ container = add(pre.c, comps[idx].name, Payload(comps[idx], i))

\* a Selection whose default is not its first label has read a text with tokens
\* and none of its labels
C6_Witness ==
  /\ LastIs({"Selection"})
  /\ comps[idx].datfilevalues[1] # comps[idx].defaultvalue
  /\ ~NoToken(pre.s.str)
  /\ \A j \in 1..Len(comps[idx].datfilevalues) : ~Occurs(comps[idx], j, pre.s.str)
  /\ err = "none"
  /\ comps[idx].name \in DOMAIN container

\* the names of the components of the choice of key k that store a value
ValueNames(k) ==
  {kinetic_model_choices[k].second[i].name :
     i \in {j \in 1..Len(kinetic_model_choices[k].second) :
              kinetic_model_choices[k].second[j].kind # "Separator"}}

\* the record is [Separator KINETIC_MODEL, Switch KINETIC_MODEL], the Switch has
\* been read, and the line is " KINETIC_MODEL <label of k> <toks>" and trail
KineticRead(k, toks, trail) ==
  /\ comps = surfmanifoldkinetics
  /\ idx = 2
  /\ line = <<SP>> \o KineticLine(k, toks) \o trail

\* C7: for every key k of the Switch KINETIC_MODEL, a line with k's label (a
\* blank on each side) and then valid tokens for k's sub-components makes the
\* read of the Switch succeed;
\* the container holds KINETIC_MODEL = k and one entry for each sub-component of
\* k that stores a value, and nothing else
C7_SwitchReadsOwnTokens ==
  \A k \in KineticKeys : \A toks \in TokensOf(k) : \A trail \in Pads :
    (/\ KineticRead(k, toks, trail)
     /\ Find(pre.s.str, Padded(kinetic_model_choices[k].first)) # npos)
    => /\ err = "none"
       /\ DOMAIN container = {"KINETIC_MODEL"} \cup ValueNames(k)
       /\ container["KINETIC_MODEL"] = IntV(k)

\* the kinds of error C8 names
MismatchErrors ==
  {"InvalidNumericLiteral", "TrailingGarbage", "InvalidBooleanLiteral",
   "MissingValue", "RequiredParameterMissing"}

\* C8 as stated: a line that selects key k and supplies the tokens of another
\* key's sub-components makes the read of the Switch fail, with a numeric, boolean,
\* MissingValue or RequiredParameterMissing error
C8_OtherTokensFail ==
  \A k \in KineticKeys : \A k2 \in KineticKeys \ {k} :
    \A toks \in TokensOf(k2) : \A trail \in Pads :
      (/\ KineticRead(k, toks, trail)
       /\ Find(pre.s.str, Padded(kinetic_model_choices[k].first)) # npos)
      => err \in MismatchErrors

\* C8 amended: a line that selects key k and supplies the tokens of another key's
\* sub-components leaves KINETIC_MODEL = k alone in the container; when k has
\* sub-components (the first is a mandatory Separator whose label the other
\* key's tokens lack) the read fails with RequiredParameterMissing thrown by the
\* first sub-component of k; when k has none (NoInterfaceFlux) the read succeeds
\* and the other key's tokens stay in the text
C8_OtherTokensFailUnlessNoSubComponents ==
  \A k \in KineticKeys : \A k2 \in KineticKeys \ {k} :
    \A toks \in TokensOf(k2) : \A trail \in Pads :
      (/\ KineticRead(k, toks, trail)
       /\ Find(pre.s.str, Padded(kinetic_model_choices[k].first)) # npos)
      => /\ container = add(EmptyContainer, "KINETIC_MODEL", IntV(k))
         /\ IF kinetic_model_choices[k].second = <<>>
            THEN err = "none" /\ Words(condline.str) = toks
            ELSE /\ err = "RequiredParameterMissing"
                 /\ errat = <<2, 1>>
                 /\ log = <<SeparatorName, "KINETIC_MODEL", SeparatorName>>

\* the Switch selected Butler-VolmerReduced on a line with the tokens of
\* ConstantInterfaceResistance, and its first sub-component threw
C8_Witness ==
  /\ \E toks \in ResistanceTokens : \E trail \in Pads :
       KineticRead(kinetics_butlervolmerreduced, toks, trail)
  /\ err = "RequiredParameterMissing"
  /\ errat = <<2, 1>>
  /\ container = add(EmptyContainer, "KINETIC_MODEL", IntV(kinetics_butlervolmerreduced))

\* C9: a Separator whose label occurs in the text, a blank on each side, removes
\* the first occurrence and leaves the read position where the label stood, so
\* that the token read next is the one behind the label; an optional Separator
\* without its label leaves the read position at the end of the text; a
\* mandatory one without its label fails with RequiredParameterMissing; the
\* container is never written
C9_SeparatorRead ==
  LastIs({"Separator"})
  => /\ container = pre.c
     /\ IF Find(pre.s.str, Padded(comps[idx].separator)) # npos
        THEN /\ err = "none"
             /\ condline.str =
                  Erase(pre.s.str, Find(pre.s.str, Padded(comps[idx].separator)) + 1,
                        Len(comps[idx].separator))
             /\ tellg(condline).pos =
                  Find(pre.s.str, Padded(comps[idx].separator)) + 1
        ELSE IF comps[idx].optional
        THEN err = "none" /\ tellg(condline).pos = Len(condline.str)
        ELSE err = "RequiredParameterMissing"

\* C10: after an optional Separator found its label absent, and until a Separator
\* or a Selection finds a label, every scalar or vector read next raises no
\* error, stores its declared default(s) and removes nothing from the text
C10_SkippedFieldsReadEmpty ==
  (/\ LastIs({"String", "Int", "Real", "Bool", "IntVector", "RealVector"})
   /\ skipped)
  => /\ err = "none"
     /\ container = add(pre.c, comps[idx].name, DefaultOf(comps[idx]))
     /\ condline.str = pre.s.str

\* C11: in every state a sequence of reads that raised no error has reached, the
\* read position of the stream is an index in 0..length of the current text
C11_PositionWithinText ==
  (idx > 0 /\ err = "none") => tellg(condline).pos \in 0..Len(condline.str)

UpperChars ==
  <<"A", "B", "C", "D", "E", "F", "G", "H", "I", "J", "K", "L", "M",
    "N", "O", "P", "Q", "R", "S", "T", "U", "V", "W", "X", "Y", "Z">>

LowerChars ==
  <<"a", "b", "c", "d", "e", "f", "g", "h", "i", "j", "k", "l", "m",
    "n", "o", "p", "q", "r", "s", "t", "u", "v", "w", "x", "y", "z">>

\* the lower-case letter of an upper-case letter, every other character itself
ToLower(ch) ==
  IF \E i \in 1..Len(UpperChars) : UpperChars[i] = ch
  THEN LowerChars[CHOOSE i \in 1..Len(UpperChars) : UpperChars[i] = ch]
  ELSE ch

LowerCase(tok) == [i \in 1..Len(tok) |-> ToLower(tok[i])]

\* what C12 says the read of a Bool leaves when it extracted the token tok
BoolReadOf(tok) ==
  IF LowerCase(tok) \in {<<"y", "e", "s">>, <<"t", "r", "u", "e">>}
  THEN err = "none" /\ container = add(pre.c, comps[idx].name, BoolV(TRUE))
  ELSE IF LowerCase(tok) \in {<<"n", "o">>, <<"f", "a", "l", "s", "e">>}
  THEN err = "none" /\ container = add(pre.c, comps[idx].name, BoolV(FALSE))
  ELSE err = "InvalidBooleanLiteral" /\ container = pre.c

\* C12: a Bool whose read extracts a token stores true iff the token is "yes" or
\* "true" in any mix of upper and lower case, false iff it is "no" or "false" in
\* any mix of case, and fails with InvalidBooleanLiteral for every other token
C12_BoolCaseInsensitive ==
  (/\ LastIs({"Bool"})
   /\ good(pre.s)
   /\ Words(Rest(pre.s)) # <<>>)
  => BoolReadOf(Words(Rest(pre.s))[1])

\* the type of the numbers of an Int, IntVector, Real or RealVector
NumberType(comp) == IF comp.kind \in {"Int", "IntVector"} THEN "int" ELSE "double"

\* what std::stoi or std::stod makes of the token, by the type of the component
ConversionOf(comp, tok) == IF NumberType(comp) = "int" THEN stoi(tok) ELSE stod(tok)

\* the token is a number of the component's type and nothing else
ValidNumber(comp, tok) ==
  ConversionOf(comp, tok).status = "ok" /\ ConversionOf(comp, tok).pos = Len(tok)

\* the number of tokens the read of the component asks for, c the container
SlotsOf(comp, c) ==
  IF comp.kind \in {"Int", "Real"} THEN 1
  ELSE IF comp.length.fixed THEN comp.length.n
  ELSE c[comp.length.from].v

\* what C13 says the read leaves when the conversion r of the token tok stopped
\* before the end of tok or found no number at all
RejectedNumber(tok, r) ==
  /\ comps[idx].name \notin DOMAIN container
  /\ IF r.status = "ok"
     THEN /\ err = "TrailingGarbage"
          /\ errleft = SubSeq(tok, r.pos + 1, Len(tok))
          /\ errwhat = IF comps[idx].kind \in {"Int", "IntVector"}
                       THEN "has to be an integer"
                       ELSE "has to be a floating point"
     ELSE err = "InvalidNumericLiteral"

C14_StringTokenOrEmptyValue ==
  (/\ LastIs({"String", "Processed"})
   /\ good(pre.s)
   /\ pre.s.g # Len(pre.s.str))
  => IF NoToken(Rest(pre.s))
     THEN err = "EmptyValue" /\ container = pre.c
     ELSE /\ err = "none"
          /\ container = add(pre.c, comps[idx].name, StrV(Words(Rest(pre.s))[1]))

RECURSIVE DefaultsOf(_, _, _)
RECURSIVE WithDefaultOf(_, _)

\* the container c and the declared default of the component: the payload of the
\* default label for a Selection, the default key and the defaults of its
\* components for a Switch, as many defaults as the length in c says for a vector
\* of derived length
WithDefaultOf(comp, c) ==
  CASE comp.kind = "Separator" -> c
    [] comp.kind = "Selection" ->
         add(c, comp.name, Payload(comp, IndexOf(comp.datfilevalues, comp.defaultvalue)))
    [] comp.kind = "Switch" ->
         DefaultsOf(comp.choices[comp.default_key].second, 1,
                    add(c, comp.name, IntV(comp.default_key)))
    [] comp.kind \in {"IntVector", "RealVector"} /\ ~comp.length.fixed ->
         add(c, comp.name,
             VectorV(NumberType(comp),
                     [i \in 1..c[comp.length.from].v |-> comp.default_value]))
    [] OTHER -> add(c, comp.name, DefaultOf(comp))

\* the container c and the declared defaults of the components from i on
DefaultsOf(components, i, c) ==
  IF i > Len(components) THEN c
  ELSE DefaultsOf(components, i + 1, WithDefaultOf(components[i], c))

\* C15: the default line of a record (the default lines of its components, a
\* blank between them), read with the same components, raises no error and
\* leaves the container with the declared default of every component
C15_DefaultLineRoundTrip ==
  (/\ line = default_lines(comps, 1)
   /\ \A i \in 1..Len(comps) : comps[i].kind # "Processed"
   /\ RecordDone)
  => /\ err = "none"
     /\ container = DefaultsOf(comps, 1, EmptyContainer)

\* C16: a Selection whose default label is not among its labels, or whose labels
\* and payloads differ in number, cannot be constructed, and neither can a Switch
\* whose default key is not a key of its choices; so every Selection or Switch
\* that is read has as many payloads as labels and a default among its labels
C16_InvalidDeclarationsRejected ==
  \A i \in 1..Len(comps) :
    /\ (/\ comps[i].kind = "Selection"
        /\ \/ \A j \in 1..Len(comps[i].datfilevalues) :
                comps[i].datfilevalues[j] # comps[i].defaultvalue
           \/ Len(comps[i].datfilevalues) # Len(comps[i].intcondvalues)
                /\ ~comps[i].stringtostring
           \/ Len(comps[i].datfilevalues) # Len(comps[i].stringcondvalues)
                /\ comps[i].stringtostring)
       => err = "InvalidConfiguration" /\ idx = 0
    /\ (/\ comps[i].kind = "Switch"
        /\ \A j \in 1..Len(comps[i].keys) : comps[i].keys[j] # comps[i].default_key)
       => err = "InvalidConfiguration" /\ idx = 0

\* the errors of the catalogue
CataloguedErrors ==
  {"RequiredParameterMissing", "MissingValue", "EmptyValue", "InvalidNumericLiteral",
   "TrailingGarbage", "InvalidBooleanLiteral", "InvalidConfiguration", "InternalError"}

\* C17: whatever a read throws is an error of the catalogue
C17_OnlyCataloguedErrors ==
  (idx > 0 /\ err # "none") => err \in CataloguedErrors

\* C18: a vector read that raised no error has stored as many numbers as the
\* length says (the fixed length, or the int the container held under the
\* referenced name when the read began); the slots for which tokens were left
\* hold the values of these tokens in order, the others the declared default
C18_VectorLengthAndDefaults ==
  (/\ LastIs({"IntVector", "RealVector"})
   /\ err = "none")
  => /\ Len(container[comps[idx].name].v) = SlotsOf(comps[idx], pre.c)
     /\ good(pre.s)
        => \A i \in 1..SlotsOf(comps[idx], pre.c) :
             container[comps[idx].name].v[i] =
               IF i <= Len(Words(Rest(pre.s)))
               THEN ConversionOf(comps[idx], Words(Rest(pre.s))[i]).value
               ELSE comps[idx].default_value

\* an optional vector whose length is an int of the container has stored the
\* value of the one token that was left and the default in the slots behind it
C18_Witness ==
  /\ LastIs({"RealVector"})
  /\ err = "none"
  /\ comps[idx].optional
  /\ ~comps[idx].length.fixed
  /\ good(pre.s)
  /\ Len(Words(Rest(pre.s))) = 1
  /\ SlotsOf(comps[idx], pre.c) > 1
  /\ container[comps[idx].name].v[1] = stod(Words(Rest(pre.s))[1]).value
  /\ container[comps[idx].name].v[2] = comps[idx].default_value

\* the number n as the container holds it for an Int or a Real
NumberV(comp, n) == IF comp.kind = "Int" THEN IntV(n) ELSE RealV(n)

\* C19: an Int or Real whose read starts at the end of the text, optional or
\* mandatory, raises no error, stores the declared default and leaves text and
\* position as they were; when text is left and its first token is a number of
\* the component's type, the read stores the value of that token
C19_IntRealDefaultOrToken ==
  (/\ LastIs({"Int", "Real"})
   /\ good(pre.s))
  => IF pre.s.g = Len(pre.s.str)
     THEN /\ err = "none"
          /\ container = add(pre.c, comps[idx].name, DefaultOf(comps[idx]))
          /\ condline = pre.s
     ELSE (/\ Words(Rest(pre.s)) # <<>>
           /\ ValidNumber(comps[idx], Words(Rest(pre.s))[1]))
          => /\ err = "none"
             /\ container =
                  add(pre.c, comps[idx].name,
                      NumberV(comps[idx],
                              ConversionOf(comps[idx], Words(Rest(pre.s))[1]).value))

\* C20: an optional Real, and likewise an optional Int, whose read starts before
\* the end of the text and finds only white space raises no error and stores the
\* declared default under its name
C20_OptionalEmptyTokenKeepsDefault ==
  (/\ LastIs({"Int", "Real"})
   /\ comps[idx].optional
   /\ good(pre.s)
   /\ pre.s.g < Len(pre.s.str)
   /\ NoToken(Rest(pre.s)))
  => /\ err = "none"
     /\ container = add(pre.c, comps[idx].name, DefaultOf(comps[idx]))

\* the log of the read invoked last, when no component before it is a Switch
LastLog == SubSeq(log, idx, Len(log))

\* the key of the first choice, in the order of the keys, whose label occurs in the
\* text with a blank on each side; when none does, the key of the first choice
\* with the label of the default key (the default key, when the labels differ)
SelectedKey(comp, text) ==
  IF \E i \in 1..Len(comp.keys) : Find(text, Padded(comp.choices[comp.keys[i]].first)) # npos
  THEN comp.keys[MinOf({i \in 1..Len(comp.keys) :
                          Find(text, Padded(comp.choices[comp.keys[i]].first)) # npos})]
  ELSE comp.keys[MinOf({i \in 1..Len(comp.keys) :
                          comp.choices[comp.keys[i]].first
                            = comp.choices[comp.default_key].first})]

RECURSIVE ReadOrder(_, _)
RECURSIVE ReadOrderOf(_, _, _)
RECURSIVE ReadUntil(_, _, _)

\* the names of the components a complete read of comp invokes, in order: its own
\* and, for a Switch, those of the components of the key c holds under its name
ReadOrder(comp, c) ==
  IF comp.kind = "Switch" /\ comp.name \in DOMAIN c
  THEN <<comp.name>> \o ReadOrderOf(comp.choices[c[comp.name].v].second, 1, c)
  ELSE <<comp.name>>

ReadOrderOf(components, i, c) ==
  IF i > Len(components) THEN <<>>
  ELSE ReadOrder(components[i], c) \o ReadOrderOf(components, i + 1, c)

\* the same for a read that ended in the component at path (the indices of the
\* sub-components, outermost first): nothing behind that component
ReadUntil(comp, path, c) ==
  IF path = <<>> THEN <<comp.name>>
  ELSE <<comp.name>>
         \o ReadOrderOf(SubSeq(comp.choices[c[comp.name].v].second, 1, Head(path) - 1),
                        1, c)
         \o ReadUntil(comp.choices[c[comp.name].v].second[Head(path)], Tail(path), c)

\* C21: the read of a Switch stores under the Switch's own name the key its
\* Selection finds in the text as it was before the read; then the components of
\* that key, and no others, are read in declared order (those of a nested Switch
\* in their place); when one of them throws, the Switch throws, nothing behind
\* that component has been read, and the key stored is still the one selected
C21_SwitchReadOrderedCommits ==
  (/\ LastIs({"Switch"})
   /\ \A i \in 1..(idx - 1) : comps[i].kind # "Switch")
  => /\ comps[idx].name \in DOMAIN container
     /\ container[comps[idx].name] = IntV(SelectedKey(comps[idx], pre.s.str))
     /\ IF err = "none"
        THEN LastLog = ReadOrder(comps[idx], container)
        ELSE /\ Len(errat) >= 2
             /\ errat[1] = idx
             /\ LastLog = ReadUntil(comps[idx], Tail(errat), container)

\* the outer Switch chose the key of A, the inner Switch the key of AA, the Int of
\* the inner Switch threw, and the String behind the inner Switch was not read
C21_Witness ==
  /\ comps = <<NestedSwitch>>
  /\ idx = 1
  /\ err = "InvalidNumericLiteral"
  /\ errat = <<1, 1, 1>>
  /\ log = <<"outer", "inner", "i">>
  /\ container = add(add(EmptyContainer, "outer", IntV(1)), "inner", IntV(1))

\* C22: the read of a Switch that was constructed never fails the assertion on
\* its key: what the container holds under the Switch's name after the read of
\* its Selection is an int and a key of the choices
C22_SwitchKeyIsChoice ==
  /\ err # "InternalError"
  /\ LastIs({"Switch"})
     => /\ comps[idx].name \in DOMAIN container
        /\ container[comps[idx].name].t = "int"
        /\ container[comps[idx].name].v \in DOMAIN comps[idx].choices

\* the Switch KINETIC_MODEL has stored a key that is neither its default nor the
\* first of its keys, and read the components of that key
C22_Witness ==
  /\ comps = surfmanifoldkinetics
  /\ idx = 2
  /\ err = "none"
  /\ container["KINETIC_MODEL"] = IntV(kinetics_nointerfaceflux)
  /\ Find(pre.s.str, Padded(L_NoInterfaceFlux)) # npos

\* the indices of the labels of a Selection that occur in the text
Occurring(comp, text) == {i \in 1..Len(comp.datfilevalues) : Occurs(comp, i, text)}

\* C23: when two or more labels of a Selection occur in the text, a blank on each
\* side, the read stores the payload of the one that is declared first, wherever
\* the labels stand and however long they are, and removes the first occurrence
\* of that label and nothing else
C23_FirstDeclaredLabelWins ==
  (/\ LastIs({"Selection"})
   /\ Cardinality(Occurring(comps[idx], pre.s.str)) >= 2)
  => /\ err = "none"
     /\ container =
          add(pre.c, comps[idx].name,
              Payload(comps[idx], MinOf(Occurring(comps[idx], pre.s.str))))
     /\ condline.str =
          Erase(pre.s.str,
                Find(pre.s.str,
                     Padded(comps[idx].datfilevalues[
                              MinOf(Occurring(comps[idx], pre.s.str))])) + 1,
                Len(comps[idx].datfilevalues[MinOf(Occurring(comps[idx], pre.s.str))]))

\* the Selection that declares A before AA has read a text in which AA stands
\* before A, stored the payload of A and left AA in the text
C23_Witness ==
  /\ LastIs({"Selection"})
  /\ comps[idx] = SelectionAB
  /\ Occurring(comps[idx], pre.s.str) = {1, 2}
  /\ Find(pre.s.str, Padded(L_AA)) < Find(pre.s.str, Padded(L_A))
  /\ container[comps[idx].name] = IntV(10)
  /\ Find(condline.str, Padded(L_AA)) # npos
  /\ Find(condline.str, Padded(L_A)) = npos

\* the label is no word of the text, and part of a longer word of it
InLongerToken(label, text) ==
  /\ label # <<>>
  /\ \A k \in 1..Len(Words(text)) : Words(text)[k] # label
  /\ \E k \in 1..Len(Words(text)) :
       Len(Words(text)[k]) > Len(label) /\ Find(Words(text)[k], label) # npos

\* C24: a Separator whose label stands in the text only as part of a longer word
\* reads as one whose label is absent (no error when optional,
\* RequiredParameterMissing when mandatory) and leaves the text as it was; a
\* Selection with such a label does not select it for that: it stores the payload
\* of the first label that occurs as a word with a blank on each side, removing
\* that label alone, or the payload of its default when none does, and then the
\* text is as it was
C24_LabelsMatchWholeWords ==
  /\ (/\ LastIs({"Separator"})
      /\ InLongerToken(comps[idx].separator, pre.s.str))
     => /\ err = IF comps[idx].optional THEN "none" ELSE "RequiredParameterMissing"
        /\ condline.str = pre.s.str
  /\ (/\ LastIs({"Selection"})
      /\ \E i \in 1..Len(comps[idx].datfilevalues) :
           InLongerToken(comps[idx].datfilevalues[i], pre.s.str))
     => /\ err = "none"
        /\ IF Occurring(comps[idx], pre.s.str) # {}
           THEN /\ container =
                     add(pre.c, comps[idx].name,
                         Payload(comps[idx], MinOf(Occurring(comps[idx], pre.s.str))))
                /\ condline.str =
                     Erase(pre.s.str,
                           Find(pre.s.str,
                                Padded(comps[idx].datfilevalues[
                                         MinOf(Occurring(comps[idx], pre.s.str))])) + 1,
                           Len(comps[idx].datfilevalues[
                                 MinOf(Occurring(comps[idx], pre.s.str))]))
           ELSE /\ container =
                     add(pre.c, comps[idx].name,
                         Payload(comps[idx],
                                 IndexOf(comps[idx].datfilevalues, comps[idx].defaultvalue)))
                /\ condline.str = pre.s.str

\* the index (0-based) of the first character behind position g that is no white
\* space
TokenStart(text, g) == MinOf({i \in g..(Len(text) - 1) : ~isspace(text[i + 1])})

\* the text without its first n tokens behind position g (without all of them
\* when they are fewer), every other character in place
RECURSIVE WithoutTokens(_, _, _)
WithoutTokens(text, g, n) ==
  IF n = 0 \/ NoToken(SubSeq(text, g + 1, Len(text))) THEN text
  ELSE WithoutTokens(
         Erase(text, TokenStart(text, g),
               WordLen(SubSeq(text, TokenStart(text, g) + 1, Len(text)))),
         g, n - 1)

\* C25: a read of a String, Int, Real, Bool or Processed that raised no error and
\* had a token before it leaves the text without the characters of that token,
\* every other character where it was, and the read position where it was before
\* the read; a vector read that raised no error leaves the text without the
\* tokens of its slots, and the read position where it was when every slot had a
\* token
C25_TokenRemovedPositionRestored ==
  /\ (/\ LastIs({"String", "Int", "Real", "Bool", "Processed"})
      /\ err = "none"
      /\ good(pre.s)
      /\ ~NoToken(Rest(pre.s)))
     => /\ condline.str = WithoutTokens(pre.s.str, pre.s.g, 1)
        /\ tellg(condline).pos = pre.s.g
  /\ (/\ LastIs({"IntVector", "RealVector"})
      /\ err = "none"
      /\ good(pre.s)
      /\ ~NoToken(Rest(pre.s)))
     => /\ condline.str =
             WithoutTokens(pre.s.str, pre.s.g, SlotsOf(comps[idx], pre.c))
        /\ Len(Words(Rest(pre.s))) >= SlotsOf(comps[idx], pre.c)
           => tellg(condline).pos = pre.s.g

\* an Int read behind a removed label has taken its token out of the text between
\* the blanks on either side of it, and the read position is where the label stood
C25_Witness ==
  /\ LastIs({"Int"})
  /\ err = "none"
  /\ good(pre.s)
  /\ pre.s.g > 0
  /\ Len(Words(Rest(pre.s))) >= 2
  /\ Len(condline.str) < Len(pre.s.str)
  /\ Words(Rest(condline)) = Tail(Words(Rest(pre.s)))
  /\ tellg(condline).pos = pre.s.g

\* C26: when no label of a Selection occurs in the text, the read leaves the text
\* and the read position of the stream exactly as they were
C26_SelectionAbsentLeavesStream ==
  (/\ LastIs({"Selection"})
   /\ Occurring(comps[idx], pre.s.str) = {})
  => /\ condline.str = pre.s.str
     /\ tellg(condline).pos = tellg(pre.s).pos

\* C27: a vector declared optional with a length taken from the container, an
\* IntVector as well as a RealVector, whose read finds fewer tokens than it has
\* slots (all of them numbers of its type, white space behind the last) raises no
\* error, stores the values of these tokens and the declared default in the
\* slots behind them
C27_DerivedLengthOptionalVector ==
  (/\ LastIs({"IntVector", "RealVector"})
   /\ ~comps[idx].length.fixed
   /\ comps[idx].data_optional
   /\ good(pre.s)
   /\ pre.s.g < Len(pre.s.str)
   /\ isspace(pre.s.str[Len(pre.s.str)])
   /\ Len(Words(Rest(pre.s))) < SlotsOf(comps[idx], pre.c)
   /\ \A k \in 1..Len(Words(Rest(pre.s))) :
        ValidNumber(comps[idx], Words(Rest(pre.s))[k]))
  => /\ err = "none"
     /\ container =
          add(pre.c, comps[idx].name,
              VectorV(NumberType(comps[idx]),
                      [i \in 1..SlotsOf(comps[idx], pre.c) |->
                         IF i <= Len(Words(Rest(pre.s)))
                         THEN ConversionOf(comps[idx], Words(Rest(pre.s))[i]).value
                         ELSE comps[idx].default_value]))

\* the characters of the text behind the first occurrence of the label as a word
Behind(text, label) ==
  SubSeq(text, Find(text, Padded(label)) + Len(label) + 2, Len(text))

\* C28: an optional Real or vector that found only white space behind the read
\* position leaves the stream fit for the reads after it.  A record [Separator B,
\* optional Real or vector, Separator A, Int] read over a line with nothing but
\* white space behind B and a number behind A ends without error with that number
\* stored by the Int; a record [optional Real, optional Separator, optional Int]
\* read over a line of blanks ends without error with the Int's default stored
C28_TokenlessReadKeepsStreamUsable ==
  /\ (/\ Len(comps) = 4
      /\ comps[1] = SeparatorComponent(L_B, FALSE)
      /\ comps[2].kind \in {"Real", "RealVector"}
      /\ comps[2].optional
      /\ comps[3].kind = "Separator"
      /\ comps[3].separator = L_A
      /\ comps[4].kind = "Int"
      /\ Find(line, Padded(L_B)) # npos
      /\ NoToken(Behind(line, L_B))
      /\ Find(line, Padded(L_A)) # npos
      /\ Words(Behind(line, L_A)) # <<>>
      /\ IsNumber(Words(Behind(line, L_A))[1])
      /\ RecordDone)
     => /\ err = "none"
        /\ container[comps[4].name] = IntV(NumberOf(Words(Behind(line, L_A))[1]))
  /\ (/\ Len(comps) = 3
      /\ comps[1] = TokenlessFirst
      /\ comps[2].kind = "Separator"
      /\ comps[2].optional
      /\ comps[3].kind = "Int"
      /\ comps[3].optional
      /\ line # <<>>
      /\ NoToken(line)
      /\ RecordDone)
     => /\ err = "none"
        /\ container[comps[3].name] = IntV(comps[3].default_value)

====
